---- MODULE Spec2Model ----
(***************************************************************************)
(* Saga orchestrator of latebit-io/saga-pattern (saga-client).             *)
(*                                                                         *)
(* The repository holds several revisions of the orchestrator:             *)
(*   "plain"  saga.go: Execute with the inline compensate loop.            *)
(*   "store"  the state-store Execute (saveStepComplete / saveComplete)    *)
(*            that hands a failed index to a compensation strategy         *)
(*            (compensation_strategy.go).                                  *)
(*   "split"  the revision used by customers_saga.go: Execute and          *)
(*            Compensate are separate calls and the strategies read        *)
(*            saga.State (the state-tracking strategies).  The            *)
(*            orchestrator file of this revision is not in the tree;       *)
(*            its Execute / Compensate / SaveState follow the written      *)
(*            specification.                                               *)
(*   "status" the non-generic saga with a Status field and Executed /      *)
(*            Compensated flags on its steps; only SpecStatus draws it.    *)
(*                                                                         *)
(* The state store is one of PostgresSagaStore (a row per saga_id, written *)
(* by an upsert), its older variant, and NoStateStore.                     *)
(*                                                                         *)
(* Step actions are callbacks: every invocation is one step of the model,  *)
(* with its outcome (nil or an error) chosen by the environment.           *)
(***************************************************************************)
EXTENDS Integers, Sequences, FiniteSets, TLC

\* ------------------------------------------------------------------ bounds
MaxSteps == 3
MaxRetriesBound == 2
MaxCalls == 2
\* RetryConfig durations, in seconds, and BackoffMultiple
MaxDuration == 3
MaxMultiple == 2
\* SaveState calls that may fail: the first MaxFaults of a saga's life
MaxFaults == 5

\* ------------------------------------------------------------- vocabulary
Revisions == {"plain", "store", "split"}
\* ... and the revision whose saga keeps a Status and per-step flags
AllRevisions == Revisions \cup {"status"}
Strategies == {"FailFast", "Retry", "ContinueAll"}
\* RetryConfig.MaxRetries: additional attempts after the first
RetryChoices == 0 .. MaxRetriesBound
\* ... and the values an int field can hold below that
WideRetryChoices == (0 - 1) .. 1
\* RetryConfig.InitialBackoff / MaxBackoff (whole seconds) and
\* RetryConfig.BackoffMultiple (whole numbers)
DurationChoices == 0 .. MaxDuration
MultipleChoices == 0 .. MaxMultiple

\* DefaultRetryConfig()
DefaultInitialBackoff == 1
DefaultMaxBackoff == 30
DefaultBackoffMultiple == 2

executing == "EXECUTING"
compensating == "COMPENSATING"
complete == "COMPLETE"
failed == "FAILED"
created == "CREATED"
NoStatus == ""
\* SagaStatus of the revision with a status field
StatusPending == "pending"
StatusExecuting == "executing"
StatusCompleted == "completed"
StatusFailed == "failed"
StatusRolledBack == "rolled_back"
NoStep == 0 - 1

VARIABLES
    rev,         \* revision of the orchestrator under analysis
    strat,       \* Saga.compensationStrategy
    nSteps,      \* len(s.Steps)
    maxRetries,  \* RetryConfig.MaxRetries
    initialBackoff,   \* RetryConfig.InitialBackoff
    maxBackoff,       \* RetryConfig.MaxBackoff
    backoffMultiple,  \* RetryConfig.BackoffMultiple
    pc,          \* position of the single thread of control
    call,        \* public call in progress: "none", "Execute", "Compensate"
    calls,       \* number of public calls made so far
    i,           \* Execute: index of the step being executed
    execErr,     \* Execute: the error of the failed forward action
    fsi,         \* strategy: failedStepIndex of the pass in progress
    cIdx,        \* strategy: loop index of the reverse pass
    attempt,     \* compensateStepWithRetry: attempt counter
    backoff,     \* compensateStepWithRetry: the local backoff
    waits,       \* durations waited by the helper call made last, in order
    failures,    \* ContinueAll: compensationErrors
    Data,        \* *s.Data, the payload: the id fields the steps have filled in
    State,       \* saga.State as the strategy reads and saves it (the strategy
                 \* receives the saga by value: Compensate(ctx, saga Saga[T]))
    saved,       \* states handed to SagaStateStore.SaveState, in order
    Status,      \* s.Status of the revision that keeps a status field
    stepExecuted,     \* the steps whose Executed flag is set
    stepCompensated,  \* the steps whose Compensated flag is set
    store,       \* the record the state store holds (none, or one)
    storeKind,   \* the SagaStateStore implementation the saga is bound to
    table,       \* the saga_states table: per saga_id no row or one row
    loaded,      \* what the LoadState call made since the last saga call gave
    faults,      \* the SaveState calls (by number) the state store fails
    callLimit,   \* number of public calls the host makes on the saga
    trace,       \* history: calls, returns and step-action invocations
    ret,         \* error value returned by the last public call
    cancelled,   \* ctx.Done() is closed
    inFlight     \* the public call (by number) one of whose forward actions
                 \* was in flight when ctx was cancelled; 0: none

vars == <<rev, strat, nSteps, maxRetries, initialBackoff, maxBackoff,
          backoffMultiple, pc, call, calls, i, execErr, fsi, cIdx, attempt,
          backoff, waits, failures, Data, State, saved, store, trace, ret,
          cancelled, inFlight, faults, callLimit, storeKind, table, loaded,
          Status, stepExecuted, stepCompensated>>

config == <<rev, strat, nSteps, maxRetries, initialBackoff, maxBackoff,
            backoffMultiple, faults, callLimit, storeKind>>

\* ------------------------------------------------------------ error values
NoErr == [kind |-> "nil"]
IsNil(e) == e.kind = "nil"

\* the error a step action returns: which callback of which step
ActionErr(dir, idx) == [kind |-> "action", dir |-> dir, step |-> idx]

StepName(idx) == idx


\* fmt.Errorf("compensation failed for step %s: %w", step.Name, err)
FailFastErr(name, cause) ==
    [kind |-> "compensationFailed", step |-> name, cause |-> cause]

\* fmt.Errorf("compensation failed for step %s after %d attempts: %w", ...)
RetryErr(name, attempts, cause) ==
    [kind |-> "compensationFailedAfter", step |-> name,
     attempts |-> attempts, cause |-> cause]

\* fmt.Errorf("context cancelled during retry: %w", ctx.Err())
CtxErr == [kind |-> "contextCancelled"]

CompensationResult(name, err, attempts) ==
    [StepName |-> name, Success |-> IsNil(err), Error |-> err,
     Attempts |-> attempts]

CompensationError(fs) == [kind |-> "CompensationError", failures |-> fs]

\* fmt.Errorf("saga failed and rolled back: %w", err)
RolledBackErr(cause) == [kind |-> "rolledBack", cause |-> cause]

\* fmt.Errorf("execution failed: %w, compensation failed: %w", err, compErr)
ExecCompErr(cause, compErr) ==
    [kind |-> "executionAndCompensationFailed", cause |-> cause,
     comp |-> compErr]

\* the same three messages built with %v: the argument is formatted into
\* the text and the result wraps nothing
\* fmt.Errorf("compensation failed for step %s: %v", step.Name, err)
CompensationFailedText(name, err) ==
    [kind |-> "compensationFailed", step |-> name, msg |-> <<err>>]
\* fmt.Errorf("saga failed and rolled back: %v", err)
RolledBackText(err) == [kind |-> "rolledBack", msg |-> <<err>>]
\* fmt.Errorf("execution failed: %v, compensation failed: %v", err, compErr)
ExecCompText(err, compErr) ==
    [kind |-> "executionAndCompensationFailed", msg |-> <<err, compErr>>]

\* ExecutionError of the split revision: step name, index, underlying cause
ExecutionError(name, idx, cause) ==
    [kind |-> "ExecutionError", step |-> name, index |-> idx,
     cause |-> cause]

\* the error SagaStateStore.SaveState returns when the write fails
SaveErr == [kind |-> "saveFailed"]
\* pgx.ErrNoRows, and the error of a Scan that cannot assign the row
ErrNoRows == [kind |-> "noRows"]
ScanErr == [kind |-> "scan"]

\* --------------------------------------------------------- history events
CallEv(op) == [ev |-> "call", op |-> op, idx |-> NoStep, ok |-> TRUE]
RetEv(op, e) == [ev |-> "ret", op |-> op, idx |-> NoStep, ok |-> IsNil(e)]
FwdEv(idx, ok) == [ev |-> "fwd", op |-> "", idx |-> idx, ok |-> ok]
InvEv(idx, ok) == [ev |-> "inv", op |-> "", idx |-> idx, ok |-> ok]
WaitEv(idx) == [ev |-> "wait", op |-> "", idx |-> idx, ok |-> TRUE]
CancelEv(idx) == [ev |-> "ctxDone", op |-> "", idx |-> idx, ok |-> FALSE]
\* SaveState call number n (the n-th element of saved) and its outcome
SaveEv(n, ok) == [ev |-> "save", op |-> "", idx |-> n, ok |-> ok]

\* ---------------------------------------------------------------- payload
\* the id fields of the payload; field k is filled in by the forward action
\* of step k (data.CustomerID = &customer.Id, ...)
Fields == 0 .. MaxSteps - 1

\* the forward action of step idx succeeded
Mutate(m, idx) == [m EXCEPT !.Data = @ \cup {idx}]

\* json.Marshal(*s.Data): an object with every field, null where unset
Marshal(d) == [f \in Fields |-> IF f \in d THEN "id" ELSE "null"]

\* ------------------------------------------------------------- saga state
\* the saga under test and another saga whose row the table already holds
SagaIds == {"saga", "other"}
SagaID == "saga"
\* the implementations of SagaStateStore
StoreKinds == {"postgres", "postgresOld", "none"}
\* the result variable of a host that has not called LoadState
NotLoaded ==
    [asked |-> FALSE, id |-> "", state |-> <<>>, err |-> [kind |-> "nil"]]

\* saga.State of a freshly constructed saga (split revision)
NewState ==
    [status |-> created, total_steps |-> 0, current_step |-> 0,
     failed_step |-> NoStep, compensated_steps |-> <<>>,
     compensated_status |-> NoStatus, data |-> Marshal({})]

StepCompleteStateFailedSet(index, d) ==
    [status |-> executing, total_steps |-> nSteps, current_step |-> index,
     failed_step |-> index, compensated_steps |-> <<>>,
     compensated_status |-> NoStatus, data |-> Marshal(d)]

\* SagaState literal built by saveStepComplete (store revision)
StepCompleteState(index, d) ==
    [status |-> executing, total_steps |-> nSteps, current_step |-> index,
     failed_step |-> NoStep, compensated_steps |-> <<>>,
     compensated_status |-> NoStatus, data |-> Marshal(d)]

CompleteStatePastEnd(index, d) ==
    [status |-> complete, total_steps |-> nSteps, current_step |-> index + 1,
     failed_step |-> NoStep, compensated_steps |-> <<>>,
     compensated_status |-> NoStatus, data |-> Marshal(d)]

\* SagaState literal built by saveComplete (store revision)
CompleteState(index, d) ==
    [status |-> complete, total_steps |-> nSteps, current_step |-> index,
     failed_step |-> NoStep, compensated_steps |-> <<>>,
     compensated_status |-> NoStatus, data |-> Marshal(d)]

\* a row written by an earlier saga
OtherRow == [created_at |-> 0, updated_at |-> 0, rec |-> [NewState EXCEPT !.status = complete]]

\* the strategies of the split revision work on saga.State; only FailFast
\* writes to it
Stateful == rev = "split" /\ strat = "FailFast"

\* ------------------------------------------------- loop bounds of the code
ExecLoopCondShort(idx, n) == idx < n - 1
\* for i, step := range s.Steps
ExecLoopCond(idx, n) == idx < n

FirstIndexFromFailed(f) == f
\* for i := failedStepIndex - 1; i >= 0; i--
FirstIndex(f) == f - 1
LoopCondPastZero(idx) == idx >= 0 - 1
LoopCond(idx) == idx >= 0
NextIndex(idx) == idx - 1

RetryLoopCondExtra(att, mr) == att <= mr + 1
\* for attempt := 0; attempt <= r.config.MaxRetries; attempt++
RetryLoopCond(att, mr) == att <= mr
MayRetryOnLast(att, mr) == att <= mr
\* if attempt < r.config.MaxRetries
MayRetry(att, mr) == att < mr
\* Attempts: c.retryConfig.MaxRetries + 1
ResultAttempts(mr) == mr + 1

\* ----------------------------------------------------------- machine state
Cur ==
    [pc |-> pc, call |-> call, calls |-> calls, i |-> i,
     execErr |-> execErr, fsi |-> fsi, cIdx |-> cIdx, attempt |-> attempt,
     backoff |-> backoff, waits |-> waits, failures |-> failures,
     Data |-> Data, State |-> State, saved |-> saved, store |-> store,
     table |-> table, loaded |-> loaded, trace |-> trace, ret |-> ret,
     Status |-> Status, stepExecuted |-> stepExecuted,
     stepCompensated |-> stepCompensated]

Assign(m) ==
    /\ pc' = m.pc
    /\ call' = m.call
    /\ calls' = m.calls
    /\ i' = m.i
    /\ execErr' = m.execErr
    /\ fsi' = m.fsi
    /\ cIdx' = m.cIdx
    /\ attempt' = m.attempt
    /\ backoff' = m.backoff
    /\ waits' = m.waits
    /\ failures' = m.failures
    /\ Data' = m.Data
    /\ State' = m.State
    /\ saved' = m.saved
    /\ store' = m.store
    /\ table' = m.table
    /\ loaded' = m.loaded
    /\ Status' = m.Status
    /\ stepExecuted' = m.stepExecuted
    /\ stepCompensated' = m.stepCompensated
    /\ trace' = m.trace
    /\ ret' = m.ret

\* the machine record is computed once, then assigned
Set(m) == \E n \in {m} : Assign(n)

Log(m, e) == [m EXCEPT !.trace = Append(@, e)]

\* saga.SaveState(ctx) / s.stateStore.SaveState(ctx, &state)
\* the state store answers the n-th SaveState call with nil: NoStateStore
\* always does, the older PostgresSagaStore never does (its statement has
\* seven placeholders and is executed with six arguments)
SaveOk(n) ==
    CASE storeKind = "none" -> TRUE
      [] storeKind = "postgresOld" -> FALSE
      [] OTHER -> n \notin faults

\* the SaveState call writes to the table
Stores(n) == storeKind = "postgres" /\ SaveOk(n)

\* CreatedAt: time.Now() in the literals of saveStepComplete and saveComplete;
\* time is counted in SaveState calls
StepCreatedAt(n) == n
\* the CreatedAt of saga.State, set when the saga was created
StateCreatedAt == 0
CreatedAt(n) == IF rev = "store" THEN StepCreatedAt(n) ELSE StateCreatedAt

UpsertReplace(t, id, st, createdAt, now) ==
    [t EXCEPT ![id] =
        <<[created_at |-> createdAt, updated_at |-> now, rec |-> st]>>]

\* INSERT INTO saga_states ... ON CONFLICT (saga_id) DO UPDATE SET ...
Upsert(t, id, st, createdAt, now) ==
    [t EXCEPT ![id] =
        IF @ = <<>>
        THEN <<[created_at |-> createdAt, updated_at |-> now, rec |-> st]>>
        ELSE <<[@[1] EXCEPT !.updated_at = now, !.rec = st]>>]

\* PostgresSagaStore.LoadState scans the row into fewer destinations than
\* columns, none of them a pointer; NoStateStore.LoadState returns nil, nil
LoadState(kind, t, id) ==
    CASE kind = "none" ->
           [asked |-> TRUE, id |-> id, state |-> <<>>, err |-> NoErr]
      [] kind # "none" /\ t[id] = <<>> ->
           [asked |-> TRUE, id |-> id, state |-> <<>>, err |-> ErrNoRows]
      [] OTHER ->
           [asked |-> TRUE, id |-> id, state |-> <<>>, err |-> ScanErr]

\* the outcome of the SaveState call made last
Saved(m) == SaveOk(Len(m.saved))

SaveState(m, st) ==
    LET n == Len(m.saved) + 1
    IN  [m EXCEPT !.saved = Append(@, st),
                  !.store = IF Stores(n) THEN <<st>> ELSE @,
                  !.table = IF Stores(n)
                            THEN Upsert(@, SagaID, st, CreatedAt(n), n)
                            ELSE @,
                  !.trace = Append(@, SaveEv(n, SaveOk(n)))]

\* the public call in progress returns e to its caller
Return(m, e) ==
    [m EXCEPT !.pc = "idle", !.call = "none", !.ret = e,
              !.trace = Append(@, RetEv(m.call, e))]


\* ------------------------------------------------- compensation strategies
\* the strategy returns e.  In the plain and store revisions the pass runs
\* inside Execute, which wraps the result; in the split revision the public
\* Compensate hands it to the caller.
PassReturn(m, e) ==
    IF rev = "status"
    THEN IF IsNil(e)
         THEN Return([m EXCEPT !.Status = StatusRolledBack],
                     RolledBackText(m.execErr))
         ELSE Return(m, ExecCompText(m.execErr, e))
    ELSE IF m.call = "Execute"
         THEN Return(m, IF IsNil(e) THEN RolledBackErr(m.execErr)
                                    ELSE ExecCompErr(m.execErr, e))
         ELSE Return(m, e)

AfterLoopSaveChecked(m) ==
    CASE strat = "FailFast" ->
           IF Stateful
           THEN LET st == [m.State EXCEPT !.compensated_status = complete]
                    m1 == SaveState([m EXCEPT !.State = st], st)
                IN  PassReturn(m1, IF Saved(m1) THEN NoErr ELSE SaveErr)
           ELSE PassReturn(m, NoErr)
      [] strat = "Retry" -> PassReturn(m, NoErr)
      [] strat = "ContinueAll" ->
           IF Len(m.failures) > 0
           THEN PassReturn(m, CompensationError(m.failures))
           ELSE PassReturn(m, NoErr)

\* code after the reverse loop of each strategy
AfterLoop(m) ==
    CASE strat = "FailFast" ->
           IF Stateful
           THEN LET st == [m.State EXCEPT !.compensated_status = complete]
                IN  PassReturn(SaveState([m EXCEPT !.State = st], st), NoErr)
           ELSE PassReturn(m, NoErr)
      [] strat = "Retry" -> PassReturn(m, NoErr)
      [] strat = "ContinueAll" ->
           IF Len(m.failures) > 0
           THEN PassReturn(m, CompensationError(m.failures))
           ELSE PassReturn(m, NoErr)

RECURSIVE EnterIndex(_)
RECURSIVE NextInLoop(_)

\* i-- ; i >= 0 : the loop moves to the next lower index or ends
NextInLoop(m) ==
    LET nx == NextIndex(m.cIdx)
    IN  IF LoopCond(nx)
        THEN EnterIndex([m EXCEPT !.cIdx = nx])
        ELSE AfterLoop(m)

RetryAfterStepContinue(m, e) == NextInLoop(m)

\* RetryStrategy.Compensate: compensateStepWithRetry returned e for m.cIdx
RetryAfterStep(m, e) ==
    IF IsNil(e)
    THEN NextInLoop(m)
    ELSE PassReturn(m, RetryErr(StepName(m.cIdx), maxRetries + 1, e))

ContinueAllAfterStepAbort(m, e) ==
    IF IsNil(e)
    THEN NextInLoop(m)
    ELSE PassReturn(m, CompensationError(
             <<CompensationResult(StepName(m.cIdx), e,
                                  ResultAttempts(maxRetries))>>))

\* ContinueAllStrategy.Compensate: compensateStepWithRetry returned e
ContinueAllAfterStep(m, e) ==
    IF IsNil(e)
    THEN NextInLoop(m)
    ELSE NextInLoop([m EXCEPT !.failures =
             Append(@, CompensationResult(StepName(m.cIdx), e,
                                          ResultAttempts(maxRetries)))])

HelperReturned(m, e) ==
    IF strat = "Retry" THEN RetryAfterStep(m, e)
                       ELSE ContinueAllAfterStep(m, e)

\* loop body entered for index m.cIdx: the next thing is an invocation of the
\* inverse action, unless the retry loop of the helper has no iteration
EnterIndex(m) ==
    IF rev = "status"
    THEN \* if step.Executed && !step.Compensated
         IF m.cIdx \in m.stepExecuted /\ m.cIdx \notin m.stepCompensated
         THEN [m EXCEPT !.pc = "comp", !.attempt = 0]
         ELSE NextInLoop(m)
    ELSE IF strat = "FailFast"
    THEN [m EXCEPT !.pc = "comp", !.attempt = 0]
    ELSE LET m1 == [m EXCEPT !.backoff = initialBackoff, !.waits = <<>>]
         IN  IF RetryLoopCond(0, maxRetries)
             THEN [m1 EXCEPT !.pc = "comp", !.attempt = 0]
             ELSE HelperReturned(m1, NoErr)

\* strategy.Compensate entered with failed step index f
StartPass(m, f) ==
    LET m1 == [m EXCEPT !.fsi = f, !.failures = <<>>, !.cIdx = FirstIndex(f)]
    IN  IF LoopCond(FirstIndex(f)) THEN EnterIndex(m1) ELSE AfterLoop(m1)

FailFastBodyContinue(m, ok) ==
    IF Stateful
    THEN LET st == [m.State EXCEPT
                       !.compensated_steps = Append(@, m.cIdx),
                       !.compensated_status = compensating]
         IN  NextInLoop(SaveState([m EXCEPT !.State = st], st))
    ELSE NextInLoop(m)

\* FailFastStrategy.Compensate: loop body around one invocation
FailFastBody(m, ok) ==
    LET cause == ActionErr("inv", m.cIdx)
    IN  IF rev = "status"
        THEN IF ok
             THEN NextInLoop([m EXCEPT !.stepCompensated = @ \cup {m.cIdx}])
             ELSE PassReturn(m, CompensationFailedText(StepName(m.cIdx),
                                                       cause))
        ELSE IF Stateful
        THEN LET st1 == [m.State EXCEPT
                            !.compensated_steps = Append(@, m.cIdx)]
                 stF == [st1 EXCEPT !.compensated_status = failed]
                 stC == [st1 EXCEPT !.compensated_status = compensating]
             IN  IF ok
                 THEN NextInLoop(SaveState([m EXCEPT !.State = stC], stC))
                 ELSE PassReturn(SaveState([m EXCEPT !.State = stF], stF),
                                 FailFastErr(StepName(m.cIdx), cause))
        ELSE IF ok
             THEN NextInLoop(m)
             ELSE PassReturn(m, FailFastErr(StepName(m.cIdx), cause))

NextAttemptOnceMore(m) ==
    LET a == m.attempt + 1
    IN  IF RetryLoopCond(a, maxRetries + 1)
        THEN [m EXCEPT !.attempt = a, !.pc = "comp"]
        ELSE HelperReturned(m, ActionErr("inv", m.cIdx))

\* attempt++ ; attempt <= MaxRetries : next iteration of the retry loop, or
\* the helper returns lastErr
NextAttempt(m) ==
    LET a == m.attempt + 1
    IN  IF RetryLoopCond(a, maxRetries)
        THEN [m EXCEPT !.attempt = a, !.pc = "comp"]
        ELSE HelperReturned(m, ActionErr("inv", m.cIdx))

\* backoff = time.Duration(float64(backoff) * BackoffMultiple)
\* if backoff > MaxBackoff { backoff = MaxBackoff }
NextBackoff(b, mult, mx) ==
    LET nb == b * mult
    IN  IF nb > mx THEN mx ELSE nb

\* <-time.After(backoff) fired: the wait is over and the backoff grows
AfterWait(m) ==
    [m EXCEPT !.waits = Append(@, m.backoff),
              !.backoff = NextBackoff(m.backoff, backoffMultiple, maxBackoff)]

\* compensateStepWithRetry: loop body around one invocation
RetryBody(m, ok) ==
    IF ok
    THEN HelperReturned(m, NoErr)
    ELSE IF MayRetry(m.attempt, maxRetries)
         THEN [m EXCEPT !.pc = "backoff"]
         ELSE NextAttempt(m)


\* ------------------------------------------------------------ forward pass
\* Execute, plain revision: code after the loop over the steps
ExecuteEndPlain(m) == Return(m, NoErr)

ExecuteEndStoreUnsaved(m) == Return(m, NoErr)

\* Execute, store revision: saveComplete(ctx, steps, compensated, len(s.Steps))
ExecuteEndStore(m) ==
    Return(SaveState(m, CompleteState(nSteps, m.Data)), NoErr)

\* Execute, split revision: status = COMPLETE; persist; return success
ExecuteEndSplit(m) ==
    LET st == [m.State EXCEPT !.status = complete,
                              !.data = Marshal(m.Data)]
        m1 == SaveState([m EXCEPT !.State = st], st)
    IN  Return(m1, IF Saved(m1) THEN NoErr ELSE SaveErr)

\* Execute, status revision: s.Status = StatusCompleted; return nil
ExecuteEndStatus(m) == Return([m EXCEPT !.Status = StatusCompleted], NoErr)

ExecuteEnd(m) ==
    CASE rev = "status" -> ExecuteEndStatus(m)
      [] rev = "plain" -> ExecuteEndPlain(m)
      [] rev = "store" -> ExecuteEndStore(m)
      [] rev = "split" -> ExecuteEndSplit(m)

\* loop head of Execute for index m.i
ExecuteEnter(m) ==
    IF ExecLoopCond(m.i, nSteps) THEN [m EXCEPT !.pc = "fwd"]
                                 ELSE ExecuteEnd(m)

\* Execute, split revision: freeze total_steps, status = EXECUTING,
\* current_step = 0, persist
ExecuteBeginSplit(m) ==
    LET st == [m.State EXCEPT !.status = executing,
                              !.total_steps = nSteps,
                              !.current_step = 0,
                              !.data = Marshal(m.Data)]
        m1 == SaveState([m EXCEPT !.State = st, !.i = 0], st)
    IN  IF Saved(m1) THEN ExecuteEnter(m1) ELSE Return(m1, SaveErr)

\* Execute up to the first invocation of a forward action
ExecuteBegin(m) ==
    CASE rev = "split" -> ExecuteBeginSplit(m)
      [] rev = "status" ->
           ExecuteEnter([m EXCEPT !.i = 0, !.Status = StatusExecuting])
      [] OTHER -> ExecuteEnter([m EXCEPT !.i = 0])

ForwardBodyPlainInclusive(m, ok) ==
    IF ok
    THEN ExecuteEnter([m EXCEPT !.i = m.i + 1])
    ELSE StartPass([m EXCEPT !.execErr = ActionErr("fwd", m.i)], m.i + 1)

\* Execute, plain revision: loop body around one forward invocation
ForwardBodyPlain(m, ok) ==
    IF ok
    THEN ExecuteEnter([m EXCEPT !.i = m.i + 1])
    ELSE StartPass([m EXCEPT !.execErr = ActionErr("fwd", m.i)], m.i)

ForwardBodyStoreContinue(m, ok) ==
    ExecuteEnter(SaveState([m EXCEPT !.i = m.i + 1],
                           StepCompleteState(m.i, m.Data)))

\* Execute, store revision: loop body around one forward invocation
ForwardBodyStore(m, ok) ==
    IF ok
    THEN ExecuteEnter(SaveState([m EXCEPT !.i = m.i + 1],
                                StepCompleteState(m.i, m.Data)))
    ELSE StartPass([m EXCEPT !.execErr = ActionErr("fwd", m.i)], m.i)

\* Execute, split revision: current_step = i + 1; invoke; persist; on an
\* error failed_step = i, status = FAILED, persist, return the error.  A
\* save failure surfaces as an error and ends the forward pass.
ForwardBodySplit(m, ok) ==
    LET cause == ActionErr("fwd", m.i)
        st1 == [m.State EXCEPT !.current_step = m.i + 1,
                               !.data = Marshal(m.Data)]
        stF == [st1 EXCEPT !.failed_step = m.i, !.status = failed]
        m1 == SaveState([m EXCEPT !.State = st1, !.i = m.i + 1], st1)
    IN  IF ok
        THEN IF Saved(m1) THEN ExecuteEnter(m1) ELSE Return(m1, SaveErr)
        ELSE Return(SaveState([m EXCEPT !.State = stF, !.execErr = cause],
                              stF),
                    ExecutionError(StepName(m.i), m.i, cause))

\* compensate(ctx, lastExecutedIndex) of the status revision:
\* for i := lastExecutedIndex; i >= 0; i--
CompensateFrom(m, lastExecutedIndex) ==
    LET m1 == [m EXCEPT !.fsi = lastExecutedIndex + 1, !.failures = <<>>,
                        !.cIdx = lastExecutedIndex]
    IN  IF LoopCond(lastExecutedIndex) THEN EnterIndex(m1)
                                       ELSE AfterLoop(m1)

\* Execute, status revision: loop body around one forward invocation
ForwardBodyStatus(m, ok) ==
    IF ok
    THEN ExecuteEnter([m EXCEPT !.stepExecuted = @ \cup {m.i},
                                !.i = m.i + 1])
    ELSE CompensateFrom([m EXCEPT !.Status = StatusFailed,
                                  !.execErr = ActionErr("fwd", m.i)],
                        m.i - 1)

ForwardBody(m, ok) ==
    CASE rev = "status" -> ForwardBodyStatus(m, ok)
      [] rev = "plain" -> ForwardBodyPlain(m, ok)
      [] rev = "store" -> ForwardBodyStore(m, ok)
      [] rev = "split" -> ForwardBodySplit(m, ok)

\* ------------------------------------------------------------------ actions
\* a saga right after NewSaga(...).AddStep(...)...: nothing has run
Idle ==
    /\ pc = "idle"
    /\ call = "none"
    /\ calls = 0
    /\ i = 0
    /\ execErr = NoErr
    /\ fsi = 0
    /\ cIdx = 0
    /\ attempt = 0
    /\ backoff = 0
    /\ waits = <<>>
    /\ failures = <<>>
    /\ Data = {}
    /\ State = NewState
    /\ saved = <<>>
    /\ store = <<>>
    /\ table = [id \in SagaIds |-> IF id = SagaID THEN <<>> ELSE <<OtherRow>>]
    /\ loaded = NotLoaded
    /\ Status = StatusPending
    /\ stepExecuted = {}
    /\ stepCompensated = {}
    /\ trace = <<>>
    /\ ret = NoErr
    /\ cancelled = FALSE
    /\ inFlight = 0

Init ==
    /\ rev \in Revisions
    /\ strat \in (IF rev = "plain" THEN {"FailFast"} ELSE Strategies)
    /\ nSteps \in 0 .. MaxSteps
    /\ maxRetries \in (IF strat = "FailFast" THEN {0} ELSE RetryChoices)
    /\ initialBackoff = DefaultInitialBackoff
    /\ maxBackoff = DefaultMaxBackoff
    /\ backoffMultiple = DefaultBackoffMultiple
    /\ faults = {}
    /\ callLimit = MaxCalls
    /\ storeKind = "postgres"
    /\ Idle

\* the caller invokes saga.Execute(ctx)
CallExecute ==
    /\ pc = "idle"
    /\ calls < callLimit
    /\ Set(ExecuteBegin(Log([Cur EXCEPT !.call = "Execute",
                                        !.calls = calls + 1,
                                        !.loaded = NotLoaded],
                            CallEv("Execute"))))
    /\ UNCHANGED <<config, cancelled, inFlight>>

\* the caller invokes saga.Compensate(ctx) (split revision)
CallCompensate ==
    /\ pc = "idle"
    /\ rev = "split"
    /\ calls < callLimit
    /\ Set(StartPass(Log([Cur EXCEPT !.call = "Compensate",
                                     !.calls = calls + 1,
                                     !.loaded = NotLoaded],
                         CallEv("Compensate")),
                     State.failed_step))
    /\ UNCHANGED <<config, cancelled, inFlight>>

\* step.Execute(ctx, s.Data) returns nil
ForwardSucceeds ==
    /\ pc = "fwd"
    /\ Set(ForwardBody(Log(Mutate(Cur, i), FwdEv(i, TRUE)), TRUE))
    /\ UNCHANGED <<config, cancelled, inFlight>>

\* step.Execute(ctx, s.Data) returns an error
ForwardFails ==
    /\ pc = "fwd"
    /\ Set(ForwardBody(Log(Cur, FwdEv(i, FALSE)), FALSE))
    /\ UNCHANGED <<config, cancelled, inFlight>>

InverseBody(m, ok) ==
    IF strat = "FailFast" THEN FailFastBody(m, ok) ELSE RetryBody(m, ok)

\* step.Compensate(ctx, data) returns nil
InverseSucceeds ==
    /\ pc = "comp"
    /\ Set(InverseBody(Log(Cur, InvEv(cIdx, TRUE)), TRUE))
    /\ UNCHANGED <<config, cancelled, inFlight>>

\* step.Compensate(ctx, data) returns an error
InverseFails ==
    /\ pc = "comp"
    /\ Set(InverseBody(Log(Cur, InvEv(cIdx, FALSE)), FALSE))
    /\ UNCHANGED <<config, cancelled, inFlight>>

\* select: <-time.After(backoff)
BackoffElapsed ==
    /\ pc = "backoff"
    /\ Set(NextAttempt(AfterWait(Log(Cur, WaitEv(cIdx)))))
    /\ UNCHANGED <<config, cancelled, inFlight>>

\* select: <-ctx.Done()
BackoffCancelled ==
    /\ pc = "backoff"
    /\ cancelled
    /\ Set(HelperReturned(Log(Cur, CancelEv(cIdx)), CtxErr))
    /\ UNCHANGED <<config, cancelled, inFlight>>

\* the caller's context is cancelled
Cancel ==
    /\ ~cancelled
    /\ cancelled' = TRUE
    /\ inFlight' = IF pc = "fwd" THEN calls ELSE 0
    /\ UNCHANGED <<config, pc, call, calls, i, execErr, fsi, cIdx, attempt,
                   backoff, waits, failures, Data, State, saved, store,
                   table, loaded, trace, ret, Status, stepExecuted,
                   stepCompensated>>

\* the host asks the state store for the saga:
\* stateStore.LoadState(ctx, s.SagaID)
CallLoadState ==
    /\ pc = "idle"
    /\ ~loaded.asked
    /\ Set([Cur EXCEPT !.loaded = LoadState(storeKind, table, SagaID)])
    /\ UNCHANGED <<config, cancelled, inFlight>>

Next ==
    \/ CallExecute
    \/ CallCompensate
    \/ CallLoadState
    \/ ForwardSucceeds
    \/ ForwardFails
    \/ InverseSucceeds
    \/ InverseFails
    \/ BackoffElapsed
    \/ BackoffCancelled
    \/ Cancel

Spec == Init /\ [][Next]_vars

\* the retry helper under every RetryConfig of the bounded ranges: a saga of
\* the split revision with one of the two strategies that use the helper
InitBackoff ==
    /\ rev = "split"
    /\ strat \in {"Retry", "ContinueAll"}
    /\ nSteps \in 1 .. 2
    /\ maxRetries \in RetryChoices
    /\ initialBackoff \in DurationChoices
    /\ maxBackoff \in DurationChoices
    /\ backoffMultiple \in MultipleChoices
    /\ faults = {}
    /\ callLimit = MaxCalls
    /\ storeKind = "postgres"
    /\ Idle

SpecBackoff == InitBackoff /\ [][Next]_vars

\* a saga bound to a state store that fails some of its SaveState calls
InitStore ==
    /\ rev \in {"store", "split"}
    /\ strat \in Strategies
    /\ nSteps \in 0 .. MaxSteps
    /\ maxRetries \in (IF strat = "FailFast" THEN {0} ELSE 0 .. 1)
    /\ initialBackoff = DefaultInitialBackoff
    /\ maxBackoff = DefaultMaxBackoff
    /\ backoffMultiple = DefaultBackoffMultiple
    /\ faults \in SUBSET (1 .. MaxFaults)
    /\ callLimit = MaxCalls
    /\ storeKind = "postgres"
    /\ Idle

SpecStore == InitStore /\ [][Next]_vars

\* a host that calls the saga once more (Compensate again after a
\* compensation), on short step lists of the split revision
InitRepeat ==
    /\ rev = "split"
    /\ strat \in Strategies
    /\ nSteps \in 1 .. 2
    /\ maxRetries \in (IF strat = "FailFast" THEN {0} ELSE 0 .. 1)
    /\ initialBackoff = DefaultInitialBackoff
    /\ maxBackoff = DefaultMaxBackoff
    /\ backoffMultiple = DefaultBackoffMultiple
    /\ faults = {}
    /\ callLimit = MaxCalls + 1
    /\ storeKind = "postgres"
    /\ Idle

SpecRepeat == InitRepeat /\ [][Next]_vars

\* a saga bound to any of the three SagaStateStore implementations
InitStores ==
    /\ rev \in {"store", "split"}
    /\ strat \in Strategies
    /\ nSteps \in 0 .. MaxSteps
    /\ maxRetries \in (IF strat = "FailFast" THEN {0} ELSE 0 .. 1)
    /\ initialBackoff = DefaultInitialBackoff
    /\ maxBackoff = DefaultMaxBackoff
    /\ backoffMultiple = DefaultBackoffMultiple
    /\ faults = {}
    /\ callLimit = MaxCalls
    /\ storeKind \in StoreKinds
    /\ Idle

SpecStores == InitStores /\ [][Next]_vars

\* the sagas of every revision, the one with a status field included
InitStatus ==
    /\ rev \in AllRevisions
    /\ strat \in (IF rev \in {"plain", "status"} THEN {"FailFast"}
                                                ELSE Strategies)
    /\ nSteps \in 0 .. MaxSteps
    /\ maxRetries \in (IF strat = "FailFast" THEN {0} ELSE 0 .. 1)
    /\ initialBackoff = DefaultInitialBackoff
    /\ maxBackoff = DefaultMaxBackoff
    /\ backoffMultiple = DefaultBackoffMultiple
    /\ faults = {}
    /\ callLimit = MaxCalls
    /\ storeKind = "postgres"
    /\ Idle

SpecStatus == InitStatus /\ [][Next]_vars

\* RetryConfig is a plain struct: NewRetryStrategy accepts any MaxRetries,
\* a negative one included
InitNegative ==
    /\ rev \in {"store", "split"}
    /\ strat \in Strategies
    /\ nSteps \in 0 .. MaxSteps
    /\ maxRetries \in (IF strat = "FailFast" THEN {0} ELSE WideRetryChoices)
    /\ initialBackoff = DefaultInitialBackoff
    /\ maxBackoff = DefaultMaxBackoff
    /\ backoffMultiple = DefaultBackoffMultiple
    /\ faults = {}
    /\ callLimit = MaxCalls
    /\ storeKind = "postgres"
    /\ Idle

SpecNegative == InitNegative /\ [][Next]_vars

\* every call of a step action returns and every backoff wait ends: the
\* callbacks are calls the single thread of control waits for, and the
\* select of the helper waits on time.After(backoff) and ctx.Done()
StepReturns ==
    \/ ForwardSucceeds \/ ForwardFails
    \/ InverseSucceeds \/ InverseFails
    \/ BackoffElapsed \/ BackoffCancelled

Returning == WF_vars(StepReturns)

\* the sagas of Init under a host that calls Execute and then, at most once,
\* Compensate (CreateCustomer)
InitLive ==
    /\ rev \in Revisions
    /\ strat \in (IF rev = "plain" THEN {"FailFast"} ELSE Strategies)
    /\ nSteps \in 0 .. MaxSteps
    /\ maxRetries \in (IF strat = "FailFast" THEN {0} ELSE RetryChoices)
    /\ initialBackoff = DefaultInitialBackoff
    /\ maxBackoff = DefaultMaxBackoff
    /\ backoffMultiple = DefaultBackoffMultiple
    /\ faults = {}
    /\ callLimit = 2
    /\ storeKind = "postgres"
    /\ Idle

SpecLive == InitLive /\ [][Next]_vars /\ Returning

\* ---------------------------------------------------- reading the history
Max(S) == CHOOSE x \in S : \A y \in S : y <= x

IsInv(e) == e.ev = "inv"
IsFwd(e) == e.ev = "fwd"

\* the events of the public call made last (in progress or returned)
CallPositions == {k \in 1 .. Len(trace) : trace[k].ev = "call"}
Seg ==
    IF CallPositions = {} THEN <<>>
    ELSE SubSeq(trace, Max(CallPositions), Len(trace))
SegOp == IF Seg = <<>> THEN "none" ELSE Seg[1].op
SegInv == SelectSeq(Seg, IsInv)
SegFwd == SelectSeq(Seg, IsFwd)
Returned == pc = "idle" /\ Seg # <<>>

Idx(seq) == [k \in 1 .. Len(seq) |-> seq[k].idx]
AllOk(seq) == \A k \in 1 .. Len(seq) : seq[k].ok
Count(seq, j, ok) ==
    Cardinality({k \in 1 .. Len(seq) : seq[k].idx = j /\ seq[k].ok = ok})

\* <<f-1, ..., 0>> and <<0, ..., n-1>>
Down(f) == [k \in 1 .. f |-> f - k]
Up(n) == [k \in 1 .. n |-> k - 1]

\* the forward failure the saga has seen last
FwdFailures == {k \in 1 .. Len(trace) : IsFwd(trace[k]) /\ ~trace[k].ok}
HasFailed == FwdFailures # {}
FailedAt == trace[Max(FwdFailures)].idx

\* the call made last contains a reverse pass
SegHasPass ==
    IF rev = "split" THEN SegOp = "Compensate"
                     ELSE SegOp = "Execute" /\ ~AllOk(SegFwd)
PassDone == SegHasPass /\ Returned

\* what strategy.Compensate returned to its caller
StrategyResult ==
    IF rev = "split" THEN ret
    ELSE IF ret.kind = "executionAndCompensationFailed" THEN ret.comp
                                                        ELSE NoErr

\* ------------------------------------------------------------------ claims

\* C1: after a forward failure at index f, when every inverse action
\* succeeds, the reverse pass of each strategy invokes the inverse actions
\* of f-1, f-2, ..., 0 once each, in that order, and none of an index >= f.
C1_ReverseOrderOnSuccess ==
    (HasFailed /\ SegHasPass /\ AllOk(SegInv)) =>
        /\ Len(SegInv) <= FailedAt
        /\ Idx(SegInv) = SubSeq(Down(FailedAt), 1, Len(SegInv))
        /\ Returned => Len(SegInv) = FailedAt

C1_Witness ==
    /\ PassDone
    /\ HasFailed
    /\ FailedAt = 2
    /\ AllOk(SegInv)
    /\ Idx(SegInv) = <<1, 0>>
    /\ strat = "ContinueAll"

\* C2: when every forward action succeeds, Execute invokes the forward
\* actions of 0 .. N-1 once each in insertion order, invokes no inverse
\* action and returns nil.
C2_ForwardOrderOnSuccess ==
    (SegOp = "Execute" /\ AllOk(SegFwd)) =>
        /\ Len(SegFwd) <= nSteps
        /\ Idx(SegFwd) = SubSeq(Up(nSteps), 1, Len(SegFwd))
        /\ SegInv = <<>>
        /\ Returned => (Len(SegFwd) = nSteps /\ IsNil(ret))

C2_Witness ==
    /\ SegOp = "Execute"
    /\ Returned
    /\ nSteps = 3
    /\ Idx(SegFwd) = <<0, 1, 2>>
    /\ AllOk(SegFwd)
    /\ IsNil(ret)
    /\ rev = "store"

\* C3: the forward pass is fail-stop: after the forward action of step i
\* returned an error no forward action is invoked any more in that Execute,
\* Execute returns a non-nil error, and Execute returns nil only if every
\* forward action succeeded.
C3_FailStop ==
    SegOp = "Execute" =>
        /\ \A k \in 1 .. Len(SegFwd) : ~SegFwd[k].ok => k = Len(SegFwd)
        /\ (Returned /\ ~AllOk(SegFwd)) => ~IsNil(ret)
        /\ (Returned /\ IsNil(ret)) =>
               (AllOk(SegFwd) /\ Idx(SegFwd) = Up(nSteps))

C3_Witness ==
    /\ SegOp = "Execute"
    /\ Returned
    /\ nSteps = 3
    /\ Len(SegFwd) = 2
    /\ ~SegFwd[2].ok
    /\ ~IsNil(ret)
    /\ rev = "store"


\* C4: Execute does not compensate implicitly: no inverse action is invoked
\* between the start of Execute and its return.
C4_NoImplicitCompensation ==
    SegOp = "Execute" => SegInv = <<>>

Decreasing(seq) ==
    \A k \in 1 .. Len(seq) - 1 : seq[k + 1].idx < seq[k].idx
NonIncreasing(seq) ==
    \A k \in 1 .. Len(seq) - 1 : seq[k + 1].idx <= seq[k].idx
LastOf(seq) == seq[Len(seq)]

SucceededInv == {trace[k].idx : k \in {n \in 1 .. Len(trace) :
                                          IsInv(trace[n]) /\ trace[n].ok}}
Members(seq) == {seq[k] : k \in 1 .. Len(seq)}
C6_CompensatedOnlyIfSucceeded ==
    /\ Members(State.compensated_steps) \subseteq SucceededInv
    /\ \A k \in 1 .. Len(saved) :
           Members(saved[k].compensated_steps) \subseteq SucceededInv

Attempts(j) == Count(SegInv, j, TRUE) + Count(SegInv, j, FALSE)
\* the reverse pass has left step j behind
Settled(j) == Returned \/ cIdx < j
StepIndexes == 0 .. nSteps - 1
UsesRetryHelper == strat \in {"Retry", "ContinueAll"}

\* C7: with the retry helper and MaxRetries >= 0 the inverse action of a step
\* is invoked at most MaxRetries+1 times and never again after it returned
\* nil; without cancellation it is invoked exactly MaxRetries+1 times when
\* every attempt fails.
C7_RetryAttemptBound ==
    (UsesRetryHelper /\ maxRetries >= 0 /\ SegHasPass) =>
        \A j \in StepIndexes :
            /\ Attempts(j) <= maxRetries + 1
            /\ \A k \in 1 .. Len(SegInv) :
                   (SegInv[k].idx = j /\ SegInv[k].ok) =>
                       \A n \in k + 1 .. Len(SegInv) : SegInv[n].idx # j
            /\ (~cancelled /\ Settled(j) /\ Count(SegInv, j, TRUE) = 0
                  /\ Count(SegInv, j, FALSE) > 0) =>
                   Count(SegInv, j, FALSE) = maxRetries + 1

C7_Witness ==
    /\ strat = "Retry"
    /\ maxRetries = 2
    /\ ~cancelled
    /\ PassDone
    /\ Count(SegInv, 0, FALSE) = 3
    /\ Count(SegInv, 1, FALSE) = 2
    /\ Count(SegInv, 1, TRUE) = 1

\* C8: under Retry, when all MaxRetries+1 attempts of the inverse action of
\* index j failed, Compensate has returned an error and no inverse action of
\* an index below j is invoked.
C8_RetryGivesUp ==
    (strat = "Retry" /\ SegHasPass) =>
        \A j \in StepIndexes :
            Count(SegInv, j, FALSE) = maxRetries + 1 =>
                /\ Returned
                /\ ~IsNil(StrategyResult)
                /\ ~IsNil(ret)
                /\ \A k \in 1 .. Len(SegInv) : SegInv[k].idx >= j

C8_Witness ==
    /\ strat = "Retry"
    /\ maxRetries = 1
    /\ PassDone
    /\ HasFailed
    /\ FailedAt = 2
    /\ Count(SegInv, 1, FALSE) = 2
    /\ Attempts(0) = 0
    /\ StrategyResult.kind = "compensationFailedAfter"

\* C9: under ContinueAll without cancellation the inverse action of every
\* index f-1 .. 0 is attempted at least once, in decreasing index order,
\* whatever the outcome of the inverse actions of higher indices.
C9_ContinueAllReachesAll ==
    (strat = "ContinueAll" /\ HasFailed /\ SegHasPass /\ ~cancelled) =>
        /\ NonIncreasing(SegInv)
        /\ Returned => {SegInv[k].idx : k \in 1 .. Len(SegInv)}
                          = 0 .. FailedAt - 1

C9_Witness ==
    /\ strat = "ContinueAll"
    /\ maxRetries = 1
    /\ ~cancelled
    /\ PassDone
    /\ HasFailed
    /\ FailedAt = 2
    /\ Count(SegInv, 1, FALSE) = 2
    /\ Count(SegInv, 0, TRUE) = 1

\* C10: ContinueAll returns nil iff no inverse action failed permanently;
\* otherwise it returns a CompensationError with exactly one record for each
\* step whose inverse action failed on all MaxRetries+1 attempts, carrying
\* the step's name, attempts = MaxRetries+1 and the last error of the
\* inverse action.
PermanentlyFailed ==
    {j \in StepIndexes : Count(SegInv, j, FALSE) = maxRetries + 1}
ExpectedFailures ==
    {CompensationResult(StepName(j), ActionErr("inv", j), maxRetries + 1) :
        j \in PermanentlyFailed}
C10_ContinueAllResult ==
    (strat = "ContinueAll" /\ PassDone) =>
        /\ IsNil(StrategyResult) <=> PermanentlyFailed = {}
        /\ ~IsNil(StrategyResult) =>
               /\ StrategyResult.kind = "CompensationError"
               /\ Len(StrategyResult.failures) = Cardinality(PermanentlyFailed)
               /\ Members(StrategyResult.failures) = ExpectedFailures

\* ------------------------------------------------------------------ backoff
RECURSIVE Pow(_, _)
Pow(b, e) == IF e = 0 THEN 1 ELSE b * Pow(b, e - 1)
Min(a, b) == IF a <= b THEN a ELSE b

\* C11: for every RetryConfig with whole-number durations and multiplier
\* (InitialBackoff > MaxBackoff included), the wait before the (k+1)-th
\* retry of a step is min(MaxBackoff, InitialBackoff * BackoffMultiple^k).
C11_BackoffSchedule ==
    \A k \in 1 .. Len(waits) :
        waits[k] = Min(maxBackoff,
                       initialBackoff * Pow(backoffMultiple, k - 1))

\* ------------------------------------------------------------ cancellation
\* errors.Is(e, context.Canceled): the %w chain of e reaches ctx.Err()
RECURSIVE IsCancellation(_)
IsCancellation(e) ==
    \/ e.kind = "contextCancelled"
    \/ /\ "cause" \in DOMAIN e
       /\ IsCancellation(e.cause)

\* positions of the last call's events at which <-ctx.Done() was taken
CancelSeen == {k \in 1 .. Len(Seg) : Seg[k].ev = "ctxDone"}

\* C12: under Retry and ContinueAll, once a backoff has been interrupted by
\* the cancellation of the context no inverse action is invoked any more,
\* and the pass returns a context-cancelled error that is not a
\* CompensationError.
C12_CancelAbortsPass ==
    (strat \in {"Retry", "ContinueAll"} /\ SegHasPass /\ CancelSeen # {}) =>
        /\ \A k \in 1 .. Len(Seg) :
               (\E c \in CancelSeen : c < k) => ~IsInv(Seg[k])
        /\ Returned =>
               /\ IsCancellation(StrategyResult)
               /\ StrategyResult.kind # "CompensationError"

\* ------------------------------------------------------ error recognition
\* _, ok := err.(*CompensationError): a type assertion on the value itself,
\* which does not look through the %w chain
IsCompensationError(e) == e.kind = "CompensationError"

\* C13: when inverse actions fail permanently under ContinueAll, the error
\* the caller of the saga receives is recognised by IsCompensationError and
\* carries a failure record of every such step; the error of an execution
\* failure that was rolled back completely is not recognised as one.
C13_CompensationErrorRecognised ==
    /\ (strat = "ContinueAll" /\ PassDone /\ PermanentlyFailed # {}) =>
           /\ IsCompensationError(ret)
           /\ \A j \in PermanentlyFailed :
                  \E r \in Members(ret.failures) : r.StepName = StepName(j)
    /\ (PassDone /\ IsNil(StrategyResult)) => ~IsCompensationError(ret)

\* ------------------------------------------------------------ checkpoints
IsSave(e) == e.ev = "save"
\* the SaveState calls of the public call made last, and their records
SegSave == SelectSeq(Seg, IsSave)
SegSaved == [k \in 1 .. Len(SegSave) |-> saved[SegSave[k].idx]]

\* C14: when the forward action of step i fails, a state record with
\* status = FAILED and failed_step = i is saved before Execute returns.
C14_FailedStateSaved ==
    (rev # "plain" /\ SegOp = "Execute" /\ Returned /\ ~AllOk(SegFwd)) =>
        \E k \in 1 .. Len(SegSaved) :
            /\ SegSaved[k].status = failed
            /\ SegSaved[k].failed_step = LastOf(SegFwd).idx

\* C15: if a SaveState call of the forward pass returns an error, Execute
\* invokes no further forward action and returns a non-nil error.
C15_SaveFailureAborts ==
    (rev # "plain" /\ SegOp = "Execute") =>
        \A k \in 1 .. Len(Seg) :
            (IsSave(Seg[k]) /\ ~Seg[k].ok) =>
                /\ \A j \in k + 1 .. Len(Seg) : ~IsFwd(Seg[j])
                /\ Returned => ~IsNil(ret)

\* C16: a SaveState error during compensation neither aborts nor alters the
\* reverse pass.  Whatever the store answers, the state-saving strategy
\* invokes the inverse actions of failed_step-1, ..., 0 in that order, stops
\* only at an inverse action that returned an error, and returns nil or the
\* error of that inverse action: what it does when every save succeeds.
C16_SaveFailureKeepsPass ==
    (Stateful /\ SegHasPass) =>
        /\ Len(SegInv) <= Len(Down(fsi))
        /\ Idx(SegInv) = SubSeq(Down(fsi), 1, Len(SegInv))
        /\ \A k \in 1 .. Len(SegInv) :
               ~SegInv[k].ok => (k = Len(SegInv) /\ Returned)
        /\ Returned =>
               IF AllOk(SegInv)
               THEN /\ Len(SegInv) = Len(Down(fsi))
                    /\ ret = NoErr
               ELSE ret = FailFastErr(StepName(LastOf(SegInv).idx),
                                      ActionErr("inv", LastOf(SegInv).idx))

C16_Witness ==
    /\ Stateful
    /\ PassDone
    /\ ret = NoErr
    /\ Len(SegInv) = 2
    /\ \E k \in 1 .. Len(Seg) :
           /\ IsSave(Seg[k])
           /\ ~Seg[k].ok
           /\ \E j \in k + 1 .. Len(Seg) : IsInv(Seg[j])

\* the payload after the event at position a of the history
PayloadAt(a) == {trace[k].idx : k \in {h \in 1 .. a : IsFwd(trace[h]) /\ trace[h].ok}}

\* positions a < b hold two forward invocations of one Execute call with no
\* forward invocation between them
NextForward(a, b) ==
    /\ a < b
    /\ IsFwd(trace[a])
    /\ IsFwd(trace[b])
    /\ \A k \in a + 1 .. b - 1 : ~IsFwd(trace[k]) /\ trace[k].ev # "call"

\* C17: after the forward action of step i has succeeded and before the
\* forward action of step i+1 is invoked, the state is saved with
\* status = EXECUTING, current_step = i+1 and data = the serialization of
\* the payload as the steps 0..i have left it.
C17_CheckpointPerStep ==
    rev # "plain" =>
        \A a, b \in 1 .. Len(trace) :
            (NextForward(a, b) /\ trace[a].ok) =>
                \E c \in a + 1 .. b - 1 :
                    /\ IsSave(trace[c])
                    /\ saved[trace[c].idx].status = executing
                    /\ saved[trace[c].idx].current_step = trace[a].idx + 1
                    /\ saved[trace[c].idx].data = Marshal(PayloadAt(a))

\* C18: when every forward action of a saga of N steps succeeds (and the
\* store accepts the saves of the Execute call), the state Execute saves
\* last has status = COMPLETE, current_step = N, total_steps = N, no
\* compensated steps and no failed step, and it is the record the store
\* holds.
C18_CompleteStateSaved ==
    (rev # "plain" /\ SegOp = "Execute" /\ Returned /\ ~HasFailed
        /\ Len(SegFwd) = nSteps /\ AllOk(SegSave)) =>
        /\ SegSaved # <<>>
        /\ LastOf(SegSaved).status = complete
        /\ LastOf(SegSaved).current_step = nSteps
        /\ LastOf(SegSaved).total_steps = nSteps
        /\ LastOf(SegSaved).compensated_steps = <<>>
        /\ LastOf(SegSaved).failed_step = NoStep
        /\ store = <<LastOf(SegSaved)>>

C18_Witness ==
    /\ rev = "store"
    /\ nSteps = 3
    /\ SegOp = "Execute"
    /\ Returned
    /\ IsNil(ret)
    /\ Idx(SegFwd) = Up(3)
    /\ AllOk(SegFwd)
    /\ store # <<>>
    /\ store[1].status = complete
    /\ store[1].current_step = 3
    /\ Len(SegSave) = 4

\* ------------------------------------------------ state after compensation
IsInvOk(e) == IsInv(e) /\ e.ok
\* the indices whose inverse action has returned nil, in order
Compensated == Idx(SelectSeq(trace, IsInvOk))
\* every index below the failed step was compensated by the last pass
AllCompensated ==
    \A j \in 0 .. fsi - 1 : \E k \in 1 .. Len(SegInv) :
        SegInv[k].idx = j /\ SegInv[k].ok

\* C19: when Compensate returns (after a forward failure), the persisted
\* state has compensated_steps = the indices whose inverse action
\* succeeded, compensated_status = COMPLETE if every index below
\* failed_step was compensated and FAILED if a compensation gave up.
C19_StateAfterCompensate ==
    (rev = "split" /\ PassDone /\ HasFailed) =>
        /\ store # <<>>
        /\ store[1].compensated_steps = Compensated
        /\ AllCompensated => store[1].compensated_status = complete
        /\ (~IsNil(ret) /\ CancelSeen = {}) =>
               store[1].compensated_status = failed

\* C20: when the first step failed (failed_step = 0), Compensate under each
\* strategy invokes no inverse action, returns nil, and leaves
\* compensated_status = COMPLETE with compensated_steps empty.
C20_NothingToCompensate ==
    (rev = "split" /\ PassDone /\ HasFailed /\ fsi = 0) =>
        /\ SegInv = <<>>
        /\ IsNil(ret)
        /\ store # <<>>
        /\ store[1].compensated_status = complete
        /\ store[1].compensated_steps = <<>>

\* --------------------------------------------------------- status lifecycle
\* the status changes the lifecycle allows between two successive saves
AllowedStatusChanges ==
    {<<executing, executing>>, <<executing, complete>>,
     <<executing, failed>>, <<failed, failed>>}

\* C21: across the states saved for the saga, status only changes along
\* EXECUTING -> EXECUTING, EXECUTING -> COMPLETE, EXECUTING -> FAILED and
\* FAILED -> FAILED.
C21_StatusTransitions ==
    \A k \in 1 .. Len(saved) - 1 :
        <<saved[k].status, saved[k + 1].status>> \in AllowedStatusChanges

\* C22: once a state with status = COMPLETE has been saved, no later call on
\* the saga saves a state again.
C22_CompleteIsTerminal ==
    \A k \in 1 .. Len(saved) : saved[k].status = complete => k = Len(saved)

\* ------------------------------------------------------- compensated_steps
NoDuplicates(seq) ==
    \A a, b \in 1 .. Len(seq) : a # b => seq[a] # seq[b]
StrictlyDecreasing(seq) ==
    \A k \in 1 .. Len(seq) - 1 : seq[k + 1] < seq[k]

\* C23: after any sequence of Compensate calls, compensated_steps (of the
\* saga's state and of every state saved) holds each step index at most
\* once, in strictly decreasing order.
C23_CompensatedStepsOrdered ==
    /\ NoDuplicates(State.compensated_steps)
    /\ StrictlyDecreasing(State.compensated_steps)
    /\ \A k \in 1 .. Len(saved) :
           /\ NoDuplicates(saved[k].compensated_steps)
           /\ StrictlyDecreasing(saved[k].compensated_steps)

\* the states the saga has: its own (split revision) and every saved one
Records ==
    {saved[k] : k \in 1 .. Len(saved)}
        \cup (IF rev = "split" THEN {State} ELSE {})

\* the public calls made so far, in order
IsCall(e) == e.ev = "call"
CallOps == [k \in 1 .. Len(SelectSeq(trace, IsCall)) |->
               SelectSeq(trace, IsCall)[k].op]

\* the history is one run of the saga: Execute and, after it, at most one
\* Compensate
OneRun == CallOps \in {<<>>, <<"Execute">>, <<"Execute", "Compensate">>}

\* C24: in a run of the saga, whatever the forward and inverse actions
\* return, compensated_steps has at most failed_step entries when status is
\* FAILED and none when status is COMPLETE.
C24_CompensatedCountBound ==
    OneRun =>
        \A r \in Records :
            /\ r.status = failed =>
                   Len(r.compensated_steps) <= r.failed_step
            /\ r.status = complete => Len(r.compensated_steps) = 0

C24_Witness ==
    /\ rev = "split"
    /\ SegOp = "Compensate"
    /\ Returned
    /\ OneRun
    /\ State.status = failed
    /\ State.failed_step = 2
    /\ Len(State.compensated_steps) = 2
    /\ saved # <<>>
    /\ LastOf(saved) = State

\* the Execute of the split revision is described for one run of a saga
InScope == rev = "split" => OneRun

\* C25: in every state saved by the orchestrator, failed_step is set if and
\* only if status = FAILED.
C25_FailedStepIffFailed ==
    InScope =>
        \A k \in 1 .. Len(saved) :
            saved[k].failed_step # NoStep <=> saved[k].status = failed

C25_Witness ==
    /\ rev = "split"
    /\ OneRun
    /\ Len(saved) >= 3
    /\ saved[2].status = executing
    /\ saved[2].failed_step = NoStep
    /\ LastOf(saved).status = failed
    /\ LastOf(saved).failed_step = 1

\* C26: in every saved state 0 <= current_step <= total_steps, and
\* total_steps is the same in every state saved during one run.
C26_StepWithinTotal ==
    InScope =>
        /\ \A k \in 1 .. Len(saved) :
               /\ 0 <= saved[k].current_step
               /\ saved[k].current_step <= saved[k].total_steps
        /\ \A j, k \in 1 .. Len(saved) :
               saved[j].total_steps = saved[k].total_steps

C26_Witness ==
    /\ rev = "store"
    /\ OneRun
    /\ Len(saved) = MaxSteps + 1
    /\ saved[1].current_step = 0
    /\ LastOf(saved).status = complete
    /\ LastOf(saved).current_step = MaxSteps
    /\ LastOf(saved).total_steps = MaxSteps

\* the SaveState calls the store answered with nil, by number
AcceptedSaves ==
    {n \in 1 .. Len(saved) : SelectSeq(trace, IsSave)[n].ok}
FirstAccepted == CHOOSE n \in AcceptedSaves : \A k \in AcceptedSaves : n <= k

\* C27: the store's save is an upsert keyed by saga_id: after any sequence of
\* saves the stored created_at of the saga is the created_at of its first
\* save, whatever created_at the orchestrator passed later, while the
\* mutable fields are those of the last save; the rows of all other
\* saga_ids are unchanged.
C27_UpsertKeepsCreatedAt ==
    /\ table["other"] = <<OtherRow>>
    /\ table[SagaID] # <<>> =>
          /\ AcceptedSaves # {}
          /\ table[SagaID][1].created_at = CreatedAt(FirstAccepted)
          /\ table[SagaID][1].updated_at = Max(AcceptedSaves)
          /\ table[SagaID][1].rec = saved[Max(AcceptedSaves)]

C27_Witness ==
    /\ rev = "store"
    /\ Len(saved) = 3
    /\ table[SagaID] # <<>>
    /\ table[SagaID][1].created_at = 1
    /\ table[SagaID][1].updated_at = 3
    /\ table[SagaID][1].rec = saved[3]
    /\ CreatedAt(3) = 3
    /\ table["other"] = <<OtherRow>>

\* C28: for every store implementation, load(saga_id) returns either the
\* record saved most recently for that saga (and no error) or a non-nil
\* not-found error; it never returns neither.
C28_LoadRecordOrNotFound ==
    loaded.asked =>
        \/ /\ IsNil(loaded.err)
           /\ table[loaded.id] # <<>>
           /\ loaded.state = <<table[loaded.id][1].rec>>
        \/ /\ loaded.err = ErrNoRows
           /\ loaded.state = <<>>

\* C29: if the context is cancelled while the forward action of step i is
\* in flight, then once that action returns, with success or with an error,
\* the orchestrator stops: it does not invoke the forward action of step
\* i + 1 and Execute does not return success.
C29_CancelStopsForward ==
    [][(pc = "fwd" /\ cancelled /\ inFlight = calls) =>
          /\ pc' # "fwd"
          /\ ~(pc' = "idle" /\ IsNil(ret'))]_vars

\* the errors e wraps: what errors.Is and errors.As look through
Unwrap(e) ==
    (IF "cause" \in DOMAIN e THEN {e.cause} ELSE {})
        \cup (IF "comp" \in DOMAIN e THEN {e.comp} ELSE {})

RECURSIVE InChain(_, _)
InChain(e, target) ==
    \/ e = target
    \/ \E w \in Unwrap(e) : InChain(w, target)

\* C30: when a forward action fails, the error Execute returns wraps the
\* error of that action, so that the cause is reachable through the error
\* chain, both when the rollback succeeds and when a compensation fails.
C30_CauseInChain ==
    (Returned /\ SegOp = "Execute") =>
        \A k \in 1 .. Len(SegFwd) :
            ~SegFwd[k].ok => InChain(ret, ActionErr("fwd", SegFwd[k].idx))

\* the steps the retry helper reported as compensated (returned nil for) in
\* the reverse pass that has ended last: under Retry all the steps the pass
\* left behind, under ContinueAll the steps without a failure record
ReportedCompensated ==
    IF ~(UsesRetryHelper /\ PassDone) THEN {}
    ELSE IF strat = "Retry"
    THEN IF IsNil(StrategyResult) THEN 0 .. fsi - 1 ELSE cIdx + 1 .. fsi - 1
    ELSE {j \in 0 .. fsi - 1 :
             \A k \in 1 .. Len(failures) : failures[k].StepName # StepName(j)}

InvocationsOf(j) == {k \in 1 .. Len(SegInv) : SegInv[k].idx = j}

\* C31: for every RetryConfig, a negative MaxRetries included, the retry
\* helper reports a step as compensated only if the inverse action of the
\* step was invoked at least once and its last invocation returned nil.
C31_ReportedOnlyIfInvoked ==
    \A j \in ReportedCompensated :
        /\ InvocationsOf(j) # {}
        /\ SegInv[Max(InvocationsOf(j))].ok

\* C32: in every failure record of a CompensationError returned by
\* ContinueAll, the attempts field is the number of times the inverse action
\* of that step was invoked in the pass, also when the retry loop of the
\* step was cut short by the cancellation of the context.
C32_AttemptsAreInvocations ==
    (strat = "ContinueAll" /\ PassDone
        /\ StrategyResult.kind = "CompensationError") =>
        \A k \in 1 .. Len(StrategyResult.failures) :
            StrategyResult.failures[k].Attempts
                = Attempts(StrategyResult.failures[k].StepName)

\* ------------------------------------------------------- the host wrapper
\* CustomersSaga.CreateCustomer:
\*   err := customerSaga.Execute(ctx)
\*   if err != nil { return customerSaga.Compensate(ctx) }
\*   return err
CreateCustomer(execResult, compErr) ==
    IF ~IsNil(execResult) THEN compErr ELSE execResult

IsRet(e) == e.ev = "ret"
Returns == SelectSeq(trace, IsRet)

\* the calls made on the saga are those of one CreateCustomer call that has
\* returned: Execute, followed by Compensate exactly when Execute failed
CreateCustomerDone ==
    /\ rev = "split"
    /\ Returned
    /\ \/ CallOps = <<"Execute">> /\ Returns[1].ok
       \/ CallOps = <<"Execute", "Compensate">> /\ ~Returns[1].ok

\* what that CreateCustomer call returned (an Execute that did not return nil
\* stands for any non-nil error: the wrapper only tests it against nil)
CreateCustomerResult ==
    CreateCustomer(IF Returns[1].ok THEN NoErr ELSE SaveErr, ret)

\* C33: CreateCustomer returns a non-nil error whenever a forward step of
\* the saga failed, also when the compensation that follows succeeds
\* completely.
C33_WrapperReportsFailure ==
    (CreateCustomerDone /\ HasFailed) => ~IsNil(CreateCustomerResult)

SinglePass ==
    /\ SegHasPass
    /\ strat = "FailFast" \/ (strat = "Retry" /\ maxRetries = 0)

IsWait(e) == e.ev \in {"wait", "ctxDone"}
PassFrom == IF fsi > 0 THEN fsi ELSE 0

\* C35: Retry with MaxRetries = 0 is equivalent to FailFast.  What a pass of
\* either does is the same function of the failed index and of the outcomes
\* of the inverse actions: the inverse actions of failed-1, failed-2, ... are
\* invoked once each in that order, up to and including the first one that
\* fails; the pass never waits in a backoff; and it returns an error exactly
\* when that last inverse action failed.
C35_RetryZeroIsFailFast ==
    SinglePass =>
        /\ Len(SegInv) <= PassFrom
        /\ Idx(SegInv) = SubSeq(Down(PassFrom), 1, Len(SegInv))
        /\ \A k \in 1 .. Len(SegInv) - 1 : SegInv[k].ok
        /\ SelectSeq(Seg, IsWait) = <<>>
        /\ pc # "backoff"
        /\ Returned =>
              IF SegInv # <<>> /\ ~LastOf(SegInv).ok
              THEN ~IsNil(StrategyResult)
              ELSE IsNil(StrategyResult) /\ Len(SegInv) = PassFrom

C35_Witness ==
    /\ strat = "Retry"
    /\ maxRetries = 0
    /\ rev = "store"
    /\ PassDone
    /\ Idx(SegInv) = <<1, 0>>
    /\ SegInv[1].ok
    /\ ~SegInv[2].ok
    /\ StrategyResult.kind = "compensationFailedAfter"

\* ------------------------------------------------------------ termination
\* the number of inverse invocations a pass from failed step f may make
InverseBound ==
    IF strat = "FailFast" THEN PassFrom ELSE PassFrom * (maxRetries + 1)

InvocationBounds ==
    /\ SegHasPass => Len(SegInv) <= InverseBound
    /\ SegOp = "Execute" => Len(SegFwd) <= nSteps

\* C36: provided every inverse action call and every backoff wait returns
\* (and every forward action call), Compensate terminates under each
\* strategy for any pattern of inverse failures after at most
\* failed_step * (MaxRetries + 1) inverse invocations, at most failed_step
\* under FailFast, and Execute terminates after at most N forward
\* invocations.
C36_Termination ==
    /\ []InvocationBounds
    /\ (pc # "idle") ~> (pc = "idle")

C36_Witness ==
    /\ strat = "ContinueAll"
    /\ rev = "split"
    /\ maxRetries = 1
    /\ PassDone
    /\ fsi = 2
    /\ Len(SegInv) = 4
    /\ ~AllOk(SegInv)
    /\ StrategyResult.kind = "CompensationError"

\* ------------------------------------------------ the status revision
\* the steps whose forward action succeeded in the call made last
SegExecuted == {SegFwd[k].idx : k \in {n \in 1 .. Len(SegFwd) : SegFwd[n].ok}}
\* the steps whose inverse action succeeded in the call made last
SegCompensated ==
    {SegInv[k].idx : k \in {n \in 1 .. Len(SegInv) : SegInv[n].ok}}
InverseCalls(j) ==
    Cardinality({k \in 1 .. Len(trace) :
                    IsInv(trace[k]) /\ trace[k].idx = j})

\* C37: in the revision that tracks a status, when Execute returns the
\* status is completed iff every forward action succeeded, rolled_back iff
\* a forward action failed and every step executed before it was compensated
\* successfully, and failed iff a compensation returned an error; no step
\* has Compensated set without Executed, and the Compensate of no step is
\* invoked twice.
C37_StatusTracksOutcome ==
    rev = "status" =>
        /\ stepCompensated \subseteq stepExecuted
        /\ \A j \in StepIndexes : InverseCalls(j) <= 1
        /\ (Returned /\ SegOp = "Execute") =>
              /\ Status = StatusCompleted <=> AllOk(SegFwd)
              /\ Status = StatusRolledBack <=>
                    (~AllOk(SegFwd) /\ SegExecuted \subseteq SegCompensated)
              /\ Status = StatusFailed <=> ~AllOk(SegInv)
====
